---- MODULE Spec2Model ----
(***************************************************************************)
(* Terascout: one Durable Object (state store) and one Workflow (polling   *)
(* engine) per scout, plus the stateless control plane of the Worker.      *)
(*                                                                         *)
(* Time is counted in minutes since the epoch of the model.  A timestamp   *)
(* column that holds the empty string '' in SQLite is NoTime here.         *)
(***************************************************************************)
EXTENDS Integers, Sequences, FiniteSets, TLC

VARIABLES store, eng, now, sent, issued, api

vars == <<store, eng, now, sent, issued, api>>

(***************************************************************************)
(* Bounds of the model.                                                    *)
(***************************************************************************)
\* the clock stops advancing at MaxNow
MaxNow == 1500
\* at most MaxSends provider sends per scout
MaxSends == 3
\* the engine of the bounded specifications starts at most MaxCycle cycles
MaxCycle == 3
\* at most MaxDeletes DELETE requests per scout id
MaxDeletes == 2

(***************************************************************************)
(* SCOUT_CONFIG                                                            *)
(***************************************************************************)
maxEmailsPerScoutPerDay == 10
defaultLifetimeHours == 72
maxLifetimeHours == 168
pollIntervalMinutes == 10
maxCycles == 200
maxSnapshotTextLength == 5000
dedupeLookback == 5

fetchRetryLimit == 2
emailRetryLimit == 3

MinutesPerHour == 6 * 10
MinutesPerDay == 24 * MinutesPerHour

NoTime == 0 - 1

Scouts == {"s1", "s2"}

Min(a, b) == IF a < b THEN a ELSE b
Max(a, b) == IF a < b THEN b ELSE a

(***************************************************************************)
(* Texts, hashes, event ids.  A text is its content and its length; a      *)
(* SHA-256 digest is modelled as an injective tag of exactly what was      *)
(* hashed.  The empty string of a TEXT column is EmptyText / EmptyHash.    *)
(***************************************************************************)
EmptyText == [id |-> "", len |-> 0]
EmptyHash == <<>>

\* what fetchPageText can return: extractText caps the text at 10 000
FetchTexts == {[id |-> "A", len |-> 100], [id |-> "B", len |-> 10000]}

\* String.prototype.slice(0, n)
Slice(t, n) == [t EXCEPT !.len = Min(@, n)]

hashTextEmptyOfEmpty(t) == IF t.len = 0 THEN <<>> ELSE <<"sha256", t>>

hashText(t) == <<"sha256", t>>

\* the one source a scout is created with (getSearchSources)
SourceUrl(s) == <<"https://news.google.com/search?q=", s>>

\* new Date().toISOString().slice(0, 10): the UTC day of an instant
DateKey(t) == t \div MinutesPerDay

(***************************************************************************)
(* ScoutDO: the four tables of one scout, each a set (or list) of rows.    *)
(***************************************************************************)
EmptyStore == [config |-> {}, sources |-> {}, events |-> <<>>, email_counter |-> {}]

\* POST /config
saveConfig(st, body) ==
    [st EXCEPT
        !.config = {r \in @ : r.scoutId # body.scoutId}
                     \cup {[scoutId |-> body.scoutId, createdAt |-> body.createdAt,
                            expiresAt |-> body.expiresAt]},
        !.sources = {r \in @ : r.url \notin body.sources}
                     \cup {[url |-> u, lastHash |-> EmptyHash, lastText |-> EmptyText,
                            lastCheckedAt |-> NoTime] : u \in body.sources}]

getConfigFirstRow(st) ==
    [ok |-> TRUE, expiresAt |-> NoTime, createdAt |-> NoTime,
     sources |-> {r.url : r \in st.sources}]

\* GET /config
getConfig(st) ==
    IF st.config = {}
    THEN [ok |-> FALSE, expiresAt |-> NoTime, createdAt |-> NoTime, sources |-> {}]
    ELSE LET row == CHOOSE r \in st.config : TRUE
         IN  [ok |-> TRUE, expiresAt |-> row.expiresAt, createdAt |-> row.createdAt,
              sources |-> {r.url : r \in st.sources}]

\* GET /snapshot?source=url
getSnapshot(st, url) ==
    IF \E r \in st.sources : r.url = url
    THEN LET row == CHOOSE r \in st.sources : r.url = url
         IN  [present |-> TRUE, contentHash |-> row.lastHash, text |-> row.lastText,
              checkedAt |-> row.lastCheckedAt]
    ELSE [present |-> FALSE, contentHash |-> EmptyHash, text |-> EmptyText,
          checkedAt |-> NoTime]

\* POST /snapshot
saveSnapshot(st, body, t) ==
    [st EXCEPT !.sources =
        {IF r.url = body.url
         THEN [r EXCEPT !.lastHash = body.contentHash,
                        !.lastText = Slice(body.text, maxSnapshotTextLength),
                        !.lastCheckedAt = t]
         ELSE r : r \in @}]

recordEventAlways(st, body) ==
    [store |-> [st EXCEPT !.events = Append(@, body @@ [notified |-> FALSE])],
     resp |-> [ok |-> TRUE, duplicate |-> FALSE]]

\* POST /event as INSERT OR REPLACE: a known eventId's row is replaced
recordEventReplace(st, body) ==
    [store |-> [st EXCEPT !.events =
                   Append(SelectSeq(@, LAMBDA r : r.eventId # body.eventId),
                          body @@ [notified |-> FALSE])],
     resp |-> [ok |-> TRUE, duplicate |-> FALSE]]

\* POST /event
recordEvent(st, body) ==
    LET existing == {i \in 1..Len(st.events) : st.events[i].eventId = body.eventId}
    IN  IF existing # {}
        THEN [store |-> st, resp |-> [ok |-> TRUE, duplicate |-> TRUE]]
        ELSE [store |-> [st EXCEPT !.events = Append(@, body @@ [notified |-> FALSE])],
              resp |-> [ok |-> TRUE, duplicate |-> FALSE]]

\* GET /email-count
getEmailCount(st, t) ==
    LET rows == {r \in st.email_counter : r.dateKey = DateKey(t)}
    IN  IF rows = {} THEN 0 ELSE (CHOOSE r \in rows : TRUE).count

\* POST /email-count without the DELETE of the other dates' rows
incrementEmailCountKeepOld(st, t) ==
    LET dk == DateKey(t)
    IN  [st EXCEPT !.email_counter =
            IF \E r \in @ : r.dateKey = dk
            THEN {IF r.dateKey = dk THEN [r EXCEPT !.count = @ + 1] ELSE r : r \in @}
            ELSE @ \cup {[dateKey |-> dk, count |-> 1]}]

\* POST /email-count
incrementEmailCount(st, t) ==
    LET dk == DateKey(t)
        upserted == IF \E r \in st.email_counter : r.dateKey = dk
                    THEN {IF r.dateKey = dk THEN [r EXCEPT !.count = @ + 1] ELSE r :
                             r \in st.email_counter}
                    ELSE st.email_counter \cup {[dateKey |-> dk, count |-> 1]}
    IN  [st EXCEPT !.email_counter = {r \in upserted : r.dateKey = dk}]

\* the count POST /email-count answers: today's row after the upsert
incrementEmailCountResponse(st, t) ==
    LET rows == {r \in incrementEmailCount(st, t).email_counter : r.dateKey = DateKey(t)}
    IN  IF rows = {} THEN 1 ELSE (CHOOSE r \in rows : TRUE).count

wipeConfigOnly(st) == [st EXCEPT !.config = {}, !.sources = {}]

\* POST /wipe
wipe(st) == EmptyStore


\* GET /events: ORDER BY detectedAt DESC (rows of equal detectedAt in any order)
RECURSIVE Listings(_, _)
Listings(st, rows) ==
    IF rows = {} THEN {<<>>}
    ELSE LET latest == {i \in rows : \A j \in rows :
                           st.events[i].detectedAt >= st.events[j].detectedAt}
         IN  UNION {{<<i>> \o l : l \in Listings(st, rows \ {i})} : i \in latest}

\* GET /events without the ORDER BY: rows in insertion order
getEventsInsertionOrder(st) == {[i \in 1..Len(st.events) |-> i]}

getEvents(st) == Listings(st, 1..Len(st.events))

(***************************************************************************)
(* Requests.  Strings the handlers inspect are sequences of characters.    *)
(***************************************************************************)
RECURSIVE TrimStart(_)
TrimStart(q) == IF q # <<>> /\ Head(q) = " " THEN TrimStart(Tail(q)) ELSE q

RECURSIVE TrimEnd(_)
TrimEnd(q) ==
    IF q # <<>> /\ q[Len(q)] = " " THEN TrimEnd(SubSeq(q, 1, Len(q) - 1)) ELSE q

TrimNothing(q) == q

\* String.prototype.trim()
Trim(q) == TrimEnd(TrimStart(q))

\* String.prototype.includes(c)
Includes(q, c) == \E i \in 1..Len(q) : q[i] = c

Queries == {<<>>, <<" ">>, <<"g", "p", "u">>}
Emails == {<<>>, <<"u">>, <<"u", "@", "e">>}

\* what a client may put in CreateScoutRequest.expiresAt at time t
ExpiresAtChoices(t) ==
    {NoTime, t + 15, t + maxLifetimeHours * MinutesPerHour + MinutesPerHour}

NoResponse == [op |-> "none", status |-> 0, scoutId |-> "-", expiresAt |-> NoTime,
               at |-> NoTime]

(***************************************************************************)
(* ScoutWorkflow: the position of run() and the memoized step outcomes of  *)
(* the cycle in progress.                                                  *)
(***************************************************************************)
NoConfig == [ok |-> FALSE, expiresAt |-> NoTime, createdAt |-> NoTime, sources |-> {}]
NoFetch == [text |-> EmptyText, hash |-> EmptyHash]
NoSnapshot == [present |-> FALSE, contentHash |-> EmptyHash, text |-> EmptyText,
               checkedAt |-> NoTime]
NoAnalysis == [is_event |-> FALSE, summary |-> ""]
NoRecorded == [ok |-> FALSE, duplicate |-> FALSE]

\* what analyzeChange can return: no event (also on a parse failure), or an event
AnalysisResults == {[is_event |-> FALSE, summary |-> "no meaningful change detected"],
                    [is_event |-> TRUE, summary |-> "RTX 5090 in stock"]}

CycleLocals ==
    [config |-> NoConfig, emailCount |-> 0, fetchResult |-> NoFetch,
     lastSnapshot |-> NoSnapshot, analysis |-> NoAnalysis, isDuplicate |-> FALSE,
     eventId |-> <<>>, recorded |-> NoRecorded, tries |-> 0]

NoEngine ==
    [status |-> "none", cycle |-> 0, pc |-> "load-config", wakeAt |-> NoTime,
     memoExp |-> NoTime, gated |-> {}] @@ CycleLocals

\* the locals of run() computed outside any step
oldHash(e) == IF e.lastSnapshot.present THEN e.lastSnapshot.contentHash ELSE EmptyHash
isFirstPollWhenAbsent(e) == ~e.lastSnapshot.present
isFirstPoll(e) == oldHash(e) = EmptyHash
canSendEmail(e) == e.emailCount < maxEmailsPerScoutPerDay

ExpiredStrictly(expiresAt, t) == expiresAt # NoTime /\ t > expiresAt

\* the hard stop of run(): config.expiresAt is set and Date.now() >= expiresMs
Expired(expiresAt, t) == expiresAt # NoTime /\ t >= expiresAt

idFromNameShared(scoutId) == "s1"

\* env.SCOUT_DO.idFromName(scoutId): the store bound to a scout id
idFromName(scoutId) == scoutId

Init ==
    /\ store = [s \in Scouts |-> EmptyStore]
    /\ eng = [s \in Scouts |-> NoEngine]
    /\ now = 0
    /\ sent = [s \in Scouts |-> <<>>]
    /\ issued = {}
    /\ api = [last |-> NoResponse, wiping |-> {}, getting |-> {},
              deletes |-> [s \in Scouts |-> 0]]


(***************************************************************************)
(* Control plane (the Worker's fetch handler).                             *)
(***************************************************************************)
\* POST /api/scouts.  crypto.randomUUID() never returns an id issued before,
\* nor one that any request has named.
handleCreateScout(s, query, email, expiresAt) ==
    /\ s \notin issued
    /\ s \notin api.wiping \cup {g[1] : g \in api.getting}
    /\ api.deletes[s] = 0
    /\ IF Trim(query) = <<>>
       THEN /\ api' = [api EXCEPT !.last = [op |-> "create", status |-> 400,
                                            scoutId |-> "-", expiresAt |-> expiresAt,
                                            at |-> now, query |-> query,
                                            email |-> email]]
            /\ UNCHANGED <<store, eng, issued>>
       ELSE IF Trim(email) = <<>> \/ ~Includes(email, "@")
       THEN /\ api' = [api EXCEPT !.last = [op |-> "create", status |-> 400,
                                            scoutId |-> "-", expiresAt |-> expiresAt,
                                            at |-> now, query |-> query,
                                            email |-> email]]
            /\ UNCHANGED <<store, eng, issued>>
       ELSE /\ store' = [store EXCEPT ![idFromName(s)] =
                           saveConfig(@, [scoutId |-> s, createdAt |-> now,
                                          expiresAt |-> NoTime,
                                          sources |-> {SourceUrl(s)}])]
            /\ eng' = [eng EXCEPT ![s] = [NoEngine EXCEPT !.status = "running"]]
            /\ issued' = issued \cup {s}
            /\ api' = [api EXCEPT !.last = [op |-> "create", status |-> 201,
                                            scoutId |-> s, expiresAt |-> expiresAt,
                                            at |-> now, query |-> query,
                                            email |-> email]]
    /\ UNCHANGED <<now, sent>>

\* POST /api/scouts with a valid body while the store's POST /config fails:
\* ScoutDO.fetch catches the error and answers 500, the handler does not
\* look at the answer, creates the instance and answers 201
handleCreateScoutStoreError(s, query, email, expiresAt) ==
    /\ s \notin issued
    /\ s \notin api.wiping \cup {g[1] : g \in api.getting}
    /\ api.deletes[s] = 0
    /\ Trim(query) # <<>>
    /\ Trim(email) # <<>> /\ Includes(email, "@")
    /\ eng' = [eng EXCEPT ![s] = [NoEngine EXCEPT !.status = "running"]]
    /\ issued' = issued \cup {s}
    /\ api' = [api EXCEPT !.last = [op |-> "create", status |-> 201,
                                    scoutId |-> s, expiresAt |-> expiresAt,
                                    at |-> now, query |-> query,
                                    email |-> email]]
    /\ UNCHANGED <<store, now, sent>>

\* the steps whose body sends a write to the store
WritingSteps == {"save-snapshot", "record-event", "email"}

\* DELETE /api/scouts/:id, first half: instance.terminate(), errors swallowed
\* (there is no instance, or it has finished).  The instance stops where it
\* is: between two steps or asleep, or inside a step whose request to the
\* store is on its way (midStep).
handleDeleteScoutTerminate(s, midStep) ==
    /\ s \notin api.wiping
    /\ api.deletes[s] < MaxDeletes
    /\ midStep => eng[s].status = "running" /\ eng[s].pc \in WritingSteps
    /\ eng' = [eng EXCEPT ![s] =
                 IF @.status \in {"running", "sleeping"}
                 THEN [@ EXCEPT !.status = IF midStep THEN "stopping" ELSE "terminated"]
                 ELSE @]
    /\ api' = [api EXCEPT !.wiping = @ \cup {s}]
    /\ UNCHANGED <<store, now, sent, issued>>

\* DELETE /api/scouts/:id, first half, when SCOUT_WORKFLOW.get or
\* instance.terminate() throws: the catch swallows the error and the handler
\* goes on to the wipe with the instance as it was
handleDeleteScoutTerminateFails(s) ==
    /\ s \notin api.wiping
    /\ api.deletes[s] < MaxDeletes
    /\ api' = [api EXCEPT !.wiping = @ \cup {s}]
    /\ UNCHANGED <<store, eng, now, sent, issued>>

\* DELETE /api/scouts/:id, second half: POST /wipe, then {ok: true, scoutId}
handleDeleteScoutWipe(s) ==
    /\ s \in api.wiping
    /\ store' = [store EXCEPT ![idFromName(s)] = wipe(@)]
    /\ api' = [api EXCEPT !.last = [op |-> "delete", status |-> 200, scoutId |-> s,
                                    expiresAt |-> NoTime, at |-> now],
                           !.wiping = @ \ {s},
                           !.deletes[s] = @ + 1]
    /\ UNCHANGED <<eng, now, sent, issued>>

\* GET /api/scouts/:id, first half: GET /config; 404 unless it is ok
\* (api.getting remembers, for the request under way, whether the config row
\* was there and how long the event log was at this read)
handleGetScoutConfig(s) ==
    /\ \A g \in api.getting : g[1] # s
    /\ IF getConfig(store[idFromName(s)]).ok
       THEN api' = [api EXCEPT !.getting =
                       @ \cup {<<s, store[idFromName(s)].config # {},
                                 Len(store[idFromName(s)].events)>>}]
       ELSE api' = [api EXCEPT !.last = [op |-> "get", status |-> 404, scoutId |-> s,
                                         expiresAt |-> NoTime, at |-> now,
                                         hadConfig |-> store[idFromName(s)].config # {},
                                         events |-> <<>>]]
    /\ UNCHANGED <<store, eng, now, sent, issued>>

\* GET /api/scouts/:id, second half: GET /events, then {config, events}
handleGetScoutEvents(s) ==
    /\ \E g \in api.getting, listing \in getEvents(store[idFromName(s)]) :
         /\ g[1] = s
         /\ api' = [api EXCEPT !.last = [op |-> "get", status |-> 200, scoutId |-> s,
                                         expiresAt |-> NoTime, at |-> now,
                                         hadConfig |-> g[2],
                                         events |-> [i \in 1..Len(listing) |->
                                                       store[idFromName(s)].events[listing[i]]]],
                               !.getting = @ \ {g}]
    /\ UNCHANGED <<store, eng, now, sent, issued>>

\* POST /config on the store of an existing scout: the config row is replaced
\* (the expiration is the one mutable field) and the source row re-installed
PutConfig(s, lifetime) ==
    /\ getConfig(store[idFromName(s)]).ok
    /\ store' = [store EXCEPT ![idFromName(s)] =
                    saveConfig(@, [scoutId |-> s,
                                   createdAt |-> getConfig(store[idFromName(s)]).createdAt,
                                   expiresAt |-> getConfig(store[idFromName(s)]).createdAt + lifetime,
                                   sources |-> {SourceUrl(s)}])]
    /\ store' # store
    /\ UNCHANGED <<eng, now, sent, issued, api>>

\* time passes
Tick ==
    /\ now + MinutesPerDay <= MaxNow
    /\ now' = now + MinutesPerDay
    /\ UNCHANGED <<store, eng, sent, issued, api>>

(***************************************************************************)
(* The step runtime.  run() is re-entered from the top whenever the        *)
(* instance resumes; completed steps return their memoized outcome, the    *)
(* code between steps runs again.  Of that code only the hard-stop test    *)
(* reads anything but memoized values: it reads the clock.                 *)
(***************************************************************************)
Replay(e, t) ==
    IF e.status = "running" /\ Expired(e.memoExp, t)
    THEN [e EXCEPT !.status = "complete"]
    ELSE e

\* the end of the for-body: step.sleep(`wait-${cycle}`, pollInterval) begins
ToWait(e) == [e EXCEPT !.pc = "wait", !.tries = 0]

Running(s, pc) == eng[s].status = "running" /\ eng[s].pc = pc

\* the instance is restarted between two steps
Restart(s) ==
    /\ eng[s].status = "running"
    /\ eng' = [eng EXCEPT ![s] = Replay(@, now)]
    /\ eng'[s] # eng[s]
    /\ UNCHANGED <<store, now, sent, issued, api>>

(***************************************************************************)
(* ScoutWorkflow.run, step by step.                                        *)
(***************************************************************************)
\* step load-config-<cycle>; a 404 throws, and the run fails once the
\* runtime's retries of the step are used up
LoadConfig(s) ==
    /\ Running(s, "load-config")
    /\ LET res == getConfig(store[idFromName(s)])
       IN  eng' = [eng EXCEPT ![s] =
                    IF ~res.ok
                    THEN [@ EXCEPT !.status = "errored"]
                    ELSE [@ EXCEPT !.config = res, !.pc = "expire-check",
                                   !.memoExp = IF res.expiresAt = NoTime THEN @
                                               ELSE IF @ = NoTime THEN res.expiresAt
                                               ELSE Min(@, res.expiresAt)]]
    /\ UNCHANGED <<store, now, sent, issued, api>>

\* if (config.expiresAt) { if (Date.now() >= expiresMs) return; }
ExpireCheck(s) ==
    /\ Running(s, "expire-check")
    /\ eng' = [eng EXCEPT ![s] =
                 IF Expired(@.config.expiresAt, now)
                 THEN [@ EXCEPT !.status = "complete"]
                 ELSE [@ EXCEPT !.pc = "email-count"]]
    /\ UNCHANGED <<store, now, sent, issued, api>>

\* step email-count-<cycle>, then the for loop over config.sources
EmailCount(s) ==
    /\ Running(s, "email-count")
    /\ eng' = [eng EXCEPT ![s] =
                 IF @.config.sources = {}
                 THEN ToWait([@ EXCEPT !.emailCount = getEmailCount(store[idFromName(s)], now)])
                 ELSE [@ EXCEPT !.emailCount = getEmailCount(store[idFromName(s)], now),
                                !.pc = "fetch"]]
    /\ UNCHANGED <<store, now, sent, issued, api>>

\* step fetch-<cycle>-<label>: fetchPageText and hashText succeed
FetchOk(s, text) ==
    /\ Running(s, "fetch")
    /\ eng' = [eng EXCEPT ![s] =
                 [@ EXCEPT !.fetchResult = [text |-> text, hash |-> hashText(text)],
                           !.tries = 0, !.pc = "snapshot"]]
    /\ UNCHANGED <<store, now, sent, issued, api>>

FetchFailUncaught(s) ==
    /\ Running(s, "fetch")
    /\ eng' = [eng EXCEPT ![s] =
                 IF @.tries < fetchRetryLimit
                 THEN [@ EXCEPT !.tries = @ + 1]
                 ELSE [@ EXCEPT !.status = "errored"]]
    /\ UNCHANGED <<store, now, sent, issued, api>>

\* fetchPageText throws: retried up to retries.limit times, then the catch
\* skips the source
FetchFail(s) ==
    /\ Running(s, "fetch")
    /\ eng' = [eng EXCEPT ![s] =
                 IF @.tries < fetchRetryLimit
                 THEN [@ EXCEPT !.tries = @ + 1]
                 ELSE ToWait(@)]
    /\ UNCHANGED <<store, now, sent, issued, api>>

\* step snapshot-<cycle>-<label>
Snapshot(s) ==
    /\ Running(s, "snapshot")
    /\ eng' = [eng EXCEPT ![s] =
                 [@ EXCEPT !.lastSnapshot = getSnapshot(store[idFromName(s)], SourceUrl(s)),
                           !.pc = "save-snapshot"]]
    /\ UNCHANGED <<store, now, sent, issued, api>>

\* SaveSnapshot that writes nothing in the baseline cycle
SaveSnapshotSkipBaseline(s) ==
    /\ Running(s, "save-snapshot")
    /\ store' = [store EXCEPT ![idFromName(s)] =
                    IF isFirstPoll(eng[s]) THEN @
                    ELSE saveSnapshot(@, [url |-> SourceUrl(s),
                                          contentHash |-> eng[s].fetchResult.hash,
                                          text |-> eng[s].fetchResult.text], now)]
    /\ eng' = [eng EXCEPT ![s] =
                 IF isFirstPoll(@) THEN ToWait(@) ELSE [@ EXCEPT !.pc = "analyze"]]
    /\ UNCHANGED <<now, sent, issued, api>>

\* SaveSnapshot that skips the analysis when the fetched hash is the stored one
SaveSnapshotSkipSameHash(s) ==
    /\ Running(s, "save-snapshot")
    /\ store' = [store EXCEPT ![idFromName(s)] =
                    saveSnapshot(@, [url |-> SourceUrl(s),
                                     contentHash |-> eng[s].fetchResult.hash,
                                     text |-> eng[s].fetchResult.text], now)]
    /\ eng' = [eng EXCEPT ![s] =
                 IF isFirstPoll(@) \/ oldHash(@) = @.fetchResult.hash
                 THEN ToWait(@) ELSE [@ EXCEPT !.pc = "analyze"]]
    /\ UNCHANGED <<now, sent, issued, api>>

\* step save-snapshot-<cycle>-<label>; if (!isFirstPoll) analyze
SaveSnapshot(s) ==
    /\ Running(s, "save-snapshot")
    /\ store' = [store EXCEPT ![idFromName(s)] =
                    saveSnapshot(@, [url |-> SourceUrl(s),
                                     contentHash |-> eng[s].fetchResult.hash,
                                     text |-> eng[s].fetchResult.text], now)]
    /\ eng' = [eng EXCEPT ![s] =
                 IF isFirstPoll(@) THEN ToWait(@) ELSE [@ EXCEPT !.pc = "analyze"]]
    /\ UNCHANGED <<now, sent, issued, api>>

\* the POST /snapshot took effect, the instance died before the step's
\* outcome was persisted and was restarted: the step will run again
SaveSnapshotLost(s) ==
    /\ Running(s, "save-snapshot")
    /\ store' = [store EXCEPT ![idFromName(s)] =
                    saveSnapshot(@, [url |-> SourceUrl(s),
                                     contentHash |-> eng[s].fetchResult.hash,
                                     text |-> eng[s].fetchResult.text], now)]
    /\ store' # store
    /\ eng' = [eng EXCEPT ![s] = Replay(@, now)]
    /\ UNCHANGED <<now, sent, issued, api>>


\* what the analyzer model can answer: a JSON object, text without any
\* {...}, or a {...} that JSON.parse rejects
AnalyzerResponses ==
    {[kind |-> "json", is_event |-> TRUE, summary |-> "RTX 5090 in stock"],
     [kind |-> "json", is_event |-> FALSE, summary |-> "no meaningful change detected"],
     [kind |-> "json", is_event |-> TRUE, summary |-> ""],
     [kind |-> "text", is_event |-> FALSE, summary |-> ""],
     [kind |-> "malformed", is_event |-> TRUE, summary |-> "RTX 5090 in stock"]}

analyzeChangeTrusting(response) ==
    [is_event |-> response.is_event,
     summary |-> IF response.summary = "" THEN "Change detected" ELSE response.summary]

\* analyzeChange after ai.run returned: the fields of the parsed object, or
\* is_event false when there is no {...} or JSON.parse throws
analyzeChange(response) ==
    IF response.kind = "json"
    THEN [is_event |-> response.is_event,
          summary |-> IF response.summary = "" THEN "Change detected" ELSE response.summary]
    ELSE [is_event |-> FALSE, summary |-> "Could not parse AI response"]

\* the arguments of analyzeChange: lastSnapshot?.text ?? "" and fetchResult.text
analyzeChangeInput(e) == [oldText |-> e.lastSnapshot.text, newText |-> e.fetchResult.text]

\* what the dedup model call can do: answer a JSON object, answer text
\* without {...}, answer a {...} that JSON.parse rejects, or throw
DedupReplies ==
    {[kind |-> "json", is_duplicate |-> TRUE],
     [kind |-> "json", is_duplicate |-> FALSE],
     [kind |-> "text", is_duplicate |-> TRUE],
     [kind |-> "malformed", is_duplicate |-> TRUE],
     [kind |-> "throws", is_duplicate |-> TRUE]}

dedupAnswerFailClosed(reply) == reply.is_duplicate

\* the try block of isDuplicateEvent: Boolean(parsed.is_duplicate), false
\* when there is no {...}, JSON.parse throws or ai.run throws
dedupAnswer(reply) == reply.kind = "json" /\ reply.is_duplicate

\* step analyze-<cycle>-<label>: analyzeChange(query, lastSnapshot.text, text)
Analyze(s, result) ==
    /\ Running(s, "analyze")
    /\ eng' = [eng EXCEPT ![s] =
                 IF result.is_event
                 THEN [@ EXCEPT !.analysis = result, !.pc = "dedupe"]
                 ELSE ToWait([@ EXCEPT !.analysis = result])]
    /\ UNCHANGED <<store, now, sent, issued, api>>

\* events.slice(0, dedupeLookback).map(e => e.summary).filter(Boolean)
recentSummaries(st, listing) ==
    [i \in 1..Min(Len(st.events), dedupeLookback) |-> st.events[listing[i]].summary]

\* isDuplicateEvent: false without previous summaries, else what the model
\* answers (false when the call throws or the answer does not parse)
isDuplicateEvent(previousSummaries, answer) ==
    IF Len(previousSummaries) = 0 THEN FALSE ELSE answer

\* Dedupe without the continue: a duplicate is recorded like any event
DedupeNoSkip(s, answer) ==
    /\ Running(s, "dedupe")
    /\ \E listing \in getEvents(store[idFromName(s)]) :
         LET dup == isDuplicateEvent(recentSummaries(store[idFromName(s)], listing), answer)
         IN  eng' = [eng EXCEPT ![s] = [@ EXCEPT !.isDuplicate = dup, !.pc = "hash-event"]]
    /\ UNCHANGED <<store, now, sent, issued, api>>

\* step dedupe-<cycle>-<label>; if (isDuplicate) continue
Dedupe(s, answer) ==
    /\ Running(s, "dedupe")
    /\ \E listing \in getEvents(store[idFromName(s)]) :
         LET dup == isDuplicateEvent(recentSummaries(store[idFromName(s)], listing), answer)
         IN  eng' = [eng EXCEPT ![s] =
                      IF dup
                      THEN ToWait([@ EXCEPT !.isDuplicate = TRUE])
                      ELSE [@ EXCEPT !.isDuplicate = FALSE, !.pc = "hash-event"]]
    /\ UNCHANGED <<store, now, sent, issued, api>>

\* `${source.url}|${oldHash}|${fetchResult.hash}`: strings are sequences,
\* the template concatenates them
EventKey(url, old, new) == url \o <<"|">> \o old \o <<"|">> \o new

eventIdOfNewHash(url, old, new) == hashText(url \o <<"|">> \o new)

\* hashText(`${source.url}|${oldHash}|${fetchResult.hash}`)
eventIdOf(url, old, new) == hashText(EventKey(url, old, new))

\* step hash-event-<cycle>-<label>
HashEvent(s) ==
    /\ Running(s, "hash-event")
    /\ eng' = [eng EXCEPT ![s] =
                 [@ EXCEPT !.eventId = eventIdOf(SourceUrl(s), oldHash(eng[s]),
                                                 eng[s].fetchResult.hash),
                           !.pc = "record-event"]]
    /\ UNCHANGED <<store, now, sent, issued, api>>

\* the body of POST /event sent by the record-event step
EventBody(s, t) ==
    [eventId |-> eng[s].eventId, sourceUrl |-> SourceUrl(s),
     summary |-> eng[s].analysis.summary, detectedAt |-> t]

\* if (recorded.ok && !recorded.duplicate && canSendEmail) email step
AfterRecordUngated(e, resp) ==
    IF resp.ok /\ ~resp.duplicate
    THEN [e EXCEPT !.recorded = resp, !.pc = "email",
                   !.gated = IF canSendEmail(e) THEN @ ELSE @ \cup {e.eventId}]
    ELSE ToWait([e EXCEPT !.recorded = resp])

\* the gate without !recorded.duplicate: an email also for a known event
AfterRecordAlsoDuplicate(e, resp) ==
    IF resp.ok /\ canSendEmail(e)
    THEN [e EXCEPT !.recorded = resp, !.pc = "email"]
    ELSE ToWait([e EXCEPT !.recorded = resp,
                          !.gated = IF resp.ok /\ ~resp.duplicate
                                    THEN @ \cup {e.eventId} ELSE @])

\* (gated is history: the events inserted in a cycle that may not send)
AfterRecord(e, resp) ==
    IF resp.ok /\ ~resp.duplicate /\ canSendEmail(e)
    THEN [e EXCEPT !.recorded = resp, !.pc = "email"]
    ELSE ToWait([e EXCEPT !.recorded = resp,
                          !.gated = IF resp.ok /\ ~resp.duplicate
                                    THEN @ \cup {e.eventId} ELSE @])

\* RecordEvent with a gate that reads the counter again
RecordEventRereadCount(s) ==
    /\ Running(s, "record-event")
    /\ LET r == recordEvent(store[idFromName(s)], EventBody(s, now))
       IN  /\ store' = [store EXCEPT ![idFromName(s)] = r.store]
           /\ eng' = [eng EXCEPT ![s] =
                        AfterRecord([@ EXCEPT !.emailCount =
                                        getEmailCount(store[idFromName(s)], now)],
                                    r.resp)]
    /\ UNCHANGED <<now, sent, issued, api>>

\* step record-event-<cycle>-<label>
RecordEvent(s) ==
    /\ Running(s, "record-event")
    /\ LET r == recordEvent(store[idFromName(s)], EventBody(s, now))
       IN  /\ store' = [store EXCEPT ![idFromName(s)] = r.store]
           /\ eng' = [eng EXCEPT ![s] = AfterRecord(@, r.resp)]
    /\ UNCHANGED <<now, sent, issued, api>>

\* the POST /event took effect, the instance died before the step's outcome
\* was persisted and was restarted: the step will run again
RecordEventLost(s) ==
    /\ Running(s, "record-event")
    /\ LET r == recordEvent(store[idFromName(s)], EventBody(s, now))
       IN  /\ store' = [store EXCEPT ![idFromName(s)] = r.store]
           /\ store' # store
    /\ eng' = [eng EXCEPT ![s] = Replay(@, now)]
    /\ UNCHANGED <<now, sent, issued, api>>

\* resend.emails.send for the event of this cycle
Dispatch(s) == Append(sent[s], [eventId |-> eng[s].eventId, dateKey |-> DateKey(now)])

\* step email-<cycle>-<label>: sendEventEmail, then POST /email-count
EmailOk(s, cap) ==
    /\ Running(s, "email")
    /\ Len(sent[s]) < cap
    /\ sent' = [sent EXCEPT ![s] = Dispatch(s)]
    /\ store' = [store EXCEPT ![idFromName(s)] = incrementEmailCount(@, now)]
    /\ eng' = [eng EXCEPT ![s] = ToWait(@)]
    /\ UNCHANGED <<now, issued, api>>

\* sendEventEmail throws: retried up to retries.limit times, then the step
\* raises and the run fails
EmailSendFail(s) ==
    /\ Running(s, "email")
    /\ eng' = [eng EXCEPT ![s] =
                 IF @.tries < emailRetryLimit
                 THEN [@ EXCEPT !.tries = @ + 1]
                 ELSE [@ EXCEPT !.status = "errored"]]
    /\ UNCHANGED <<store, now, sent, issued, api>>

\* the email went out, the instance died before POST /email-count and was
\* restarted: the step will run again
EmailLostAfterSend(s, cap) ==
    /\ Running(s, "email")
    /\ Len(sent[s]) < cap
    /\ sent' = [sent EXCEPT ![s] = Dispatch(s)]
    /\ eng' = [eng EXCEPT ![s] = Replay(@, now)]
    /\ UNCHANGED <<store, now, issued, api>>

\* the email went out and the counter was incremented, the instance died
\* before the step's outcome was persisted and was restarted
EmailLostAfterCount(s, cap) ==
    /\ Running(s, "email")
    /\ Len(sent[s]) < cap
    /\ sent' = [sent EXCEPT ![s] = Dispatch(s)]
    /\ store' = [store EXCEPT ![idFromName(s)] = incrementEmailCount(@, now)]
    /\ eng' = [eng EXCEPT ![s] = Replay(@, now)]
    /\ UNCHANGED <<now, issued, api>>

\* the instance was terminated inside a step: the request the step's body
\* had sent reaches the store, nothing of run() follows
StepInFlight(s) ==
    /\ eng[s].status = "stopping"
    /\ eng' = [eng EXCEPT ![s] = [@ EXCEPT !.status = "terminated"]]
    /\ CASE eng[s].pc = "save-snapshot" ->
              /\ store' = [store EXCEPT ![idFromName(s)] =
                             saveSnapshot(@, [url |-> SourceUrl(s),
                                              contentHash |-> eng[s].fetchResult.hash,
                                              text |-> eng[s].fetchResult.text], now)]
              /\ UNCHANGED sent
         [] eng[s].pc = "record-event" ->
              /\ store' = [store EXCEPT ![idFromName(s)] = recordEvent(@, EventBody(s, now)).store]
              /\ UNCHANGED sent
         [] eng[s].pc = "email" ->
              /\ store' = [store EXCEPT ![idFromName(s)] = incrementEmailCount(@, now)]
              /\ sent' = [sent EXCEPT ![s] = Dispatch(s)]
    /\ UNCHANGED <<now, issued, api>>

\* step.sleep(`wait-${cycle}`, pollInterval) begins
Wait(s) ==
    /\ Running(s, "wait")
    /\ eng' = [eng EXCEPT ![s] =
                 [status |-> "sleeping", cycle |-> @.cycle, pc |-> "wait",
                  wakeAt |-> now + pollIntervalMinutes, memoExp |-> @.memoExp,
                  gated |-> @.gated]
                 @@ CycleLocals]
    /\ UNCHANGED <<store, now, sent, issued, api>>

\* WakeUp with a loop test of cycle <= maxCycles: one cycle too many
WakeUpOneMore(s) ==
    /\ eng[s].status = "sleeping"
    /\ now' = Max(now, eng[s].wakeAt)
    /\ eng' = [eng EXCEPT ![s] =
                 IF Expired(@.memoExp, now') \/ @.cycle + 1 > maxCycles
                 THEN [@ EXCEPT !.status = "complete", !.wakeAt = NoTime]
                 ELSE [@ EXCEPT !.status = "running", !.cycle = @ + 1,
                                !.pc = "load-config", !.wakeAt = NoTime]]
    /\ UNCHANGED <<store, sent, issued, api>>

\* the sleep is over: run() is replayed up to the end of the cycle, cycle++,
\* and the for loop goes on while cycle < maxCycles
WakeUp(s) ==
    /\ eng[s].status = "sleeping"
    /\ now' = Max(now, eng[s].wakeAt)
    /\ eng' = [eng EXCEPT ![s] =
                 IF Expired(@.memoExp, now') \/ @.cycle + 1 >= maxCycles
                 THEN [@ EXCEPT !.status = "complete", !.wakeAt = NoTime]
                 ELSE [@ EXCEPT !.status = "running", !.cycle = @ + 1,
                                !.pc = "load-config", !.wakeAt = NoTime]]
    /\ UNCHANGED <<store, sent, issued, api>>

\* WakeUp within the bound on cycles
Wake(s) ==
    /\ eng[s].cycle + 1 < MaxCycle
    /\ WakeUp(s)

(***************************************************************************)
(* Specifications.                                                         *)
(***************************************************************************)
\* the lifetimes PutConfig installs: expiresAt = createdAt, and two polls later
Lifetimes == {0, 2 * pollIntervalMinutes}

EngineStep(s) ==
    \/ LoadConfig(s)
    \/ ExpireCheck(s)
    \/ EmailCount(s)
    \/ \E text \in FetchTexts : FetchOk(s, text)
    \/ FetchFail(s)
    \/ Snapshot(s)
    \/ SaveSnapshot(s)
    \/ \E result \in AnalysisResults : Analyze(s, result)
    \/ \E answer \in BOOLEAN : Dedupe(s, answer)
    \/ HashEvent(s)
    \/ RecordEvent(s)
    \/ EmailOk(s, MaxSends)
    \/ EmailSendFail(s)
    \/ Wait(s)

\* a step whose effect took place is run again after a restart
EngineFault(s) ==
    \/ SaveSnapshotLost(s)
    \/ RecordEventLost(s)
    \/ EmailLostAfterSend(s, MaxSends)
    \/ EmailLostAfterCount(s, MaxSends)

Create(s) ==
    \E q \in Queries, e \in Emails, x \in ExpiresAtChoices(now) :
        handleCreateScout(s, q, e, x)

\* Spec: one scout whose engine may be restarted in the middle of a step;
\* the clock advances with the sleeps
Next ==
    \E s \in {"s1"} :
        \/ Create(s)
        \/ \E lifetime \in Lifetimes : PutConfig(s, lifetime)
        \/ EngineStep(s)
        \/ EngineFault(s)
        \/ Wake(s)

Spec == Init /\ [][Next]_vars

\* SpecTime: one scout, time also passes between any two steps, and the
\* instance may be restarted between steps
NextTime ==
    \/ Tick
    \/ \E s \in {"s1"} :
        \/ Create(s)
        \/ \E lifetime \in Lifetimes : PutConfig(s, lifetime)
        \/ EngineStep(s)
        \/ Restart(s)
        \/ Wake(s)

SpecTime == Init /\ [][NextTime]_vars


(***************************************************************************)
(* SpecRate: one scout whose email step is restarted after the counter     *)
(* was incremented, often enough for the daily limit to be reached.        *)
(***************************************************************************)
\* at most MaxSendsRate provider sends in SpecRate
MaxSendsRate == 12

NextRate ==
    \E s \in {"s1"} :
        \/ Create(s)
        \/ LoadConfig(s)
        \/ ExpireCheck(s)
        \/ EmailCount(s)
        \/ \E text \in FetchTexts : FetchOk(s, text)
        \/ Snapshot(s)
        \/ SaveSnapshot(s)
        \/ \E result \in AnalysisResults : Analyze(s, result)
        \/ \E answer \in BOOLEAN : Dedupe(s, answer)
        \/ HashEvent(s)
        \/ RecordEvent(s)
        \/ EmailOk(s, MaxSendsRate)
        \/ EmailLostAfterCount(s, MaxSendsRate)
        \/ Wait(s)
        \/ Wake(s)

SpecRate == Init /\ [][NextRate]_vars

(***************************************************************************)
(* SpecTwin: two scouts whose fetches and model calls return the same,     *)
(* fixed outputs in the same cycle, and whose emails always go out.  The   *)
(* engine of s1 may be restarted in the middle of a step; the engine of    *)
(* s2 never is: it is the crash-free run.                                  *)
(***************************************************************************)
\* the page shows A in cycle 0 and B from cycle 1 on
FetchedInCycle(c) ==
    IF c = 0 THEN [id |-> "A", len |-> 100] ELSE [id |-> "B", len |-> 10000]

\* the analyzer reports an event exactly when the page changed
AnalysisOfCycle(e) ==
    IF e.lastSnapshot.contentHash # e.fetchResult.hash
    THEN [is_event |-> TRUE, summary |-> "RTX 5090 in stock"]
    ELSE [is_event |-> FALSE, summary |-> "no meaningful change detected"]

TwinStep(s) ==
    \/ handleCreateScout(s, <<"g", "p", "u">>, <<"u", "@", "e">>, NoTime)
    \/ LoadConfig(s)
    \/ ExpireCheck(s)
    \/ EmailCount(s)
    \/ FetchOk(s, FetchedInCycle(eng[s].cycle))
    \/ Snapshot(s)
    \/ SaveSnapshot(s)
    \/ Analyze(s, AnalysisOfCycle(eng[s]))
    \/ Dedupe(s, FALSE)
    \/ HashEvent(s)
    \/ RecordEvent(s)
    \/ EmailOk(s, MaxSends)
    \/ Wait(s)
    \/ Wake(s)

NextTwin ==
    \/ \E s \in Scouts : TwinStep(s)
    \/ EngineFault("s1")

SpecTwin == Init /\ [][NextTwin]_vars

\* SpecTwinCrashFree: the same two scouts, neither engine ever restarted
NextTwinCrashFree == \E s \in Scouts : TwinStep(s)

SpecTwinCrashFree == Init /\ [][NextTwinCrashFree]_vars

(***************************************************************************)
(* SpecLong: one scout polling a page on which nothing happens, for as     *)
(* many cycles as run() allows, unless it is deleted.                      *)
(***************************************************************************)
NextLong ==
    \E s \in {"s1"} :
        \/ handleCreateScout(s, <<"g", "p", "u">>, <<"u", "@", "e">>, NoTime)
        \/ \E lifetime \in Lifetimes : PutConfig(s, lifetime)
        \/ LoadConfig(s)
        \/ ExpireCheck(s)
        \/ EmailCount(s)
        \/ FetchOk(s, [id |-> "A", len |-> 100])
        \/ Snapshot(s)
        \/ SaveSnapshot(s)
        \/ Analyze(s, [is_event |-> FALSE, summary |-> "no meaningful change detected"])
        \/ Wait(s)
        \/ WakeUp(s)
        \/ \E midStep \in BOOLEAN : handleDeleteScoutTerminate(s, midStep)
        \/ StepInFlight(s)
        \/ handleDeleteScoutWipe(s)

SpecLong == Init /\ [][NextLong]_vars

\* the steps and the sleep of run(): the Workflows runtime executes a step
\* that is ready and wakes an instance whose sleep is over
LongRun(s) ==
    \/ LoadConfig(s) \/ ExpireCheck(s) \/ EmailCount(s)
    \/ FetchOk(s, [id |-> "A", len |-> 100])
    \/ Snapshot(s) \/ SaveSnapshot(s)
    \/ Analyze(s, [is_event |-> FALSE, summary |-> "no meaningful change detected"])
    \/ Wait(s) \/ WakeUp(s)
    \/ StepInFlight(s)

\* SpecLong under fair scheduling of the engine's steps and sleeps
SpecLongFair == SpecLong /\ WF_vars(LongRun("s1"))

(***************************************************************************)
(* SpecCreate: one scout created from any request body, with a store whose *)
(* config write may fail, and its engine, never restarted.                 *)
(***************************************************************************)
CreateStoreError(s) ==
    \E q \in Queries, e \in Emails, x \in ExpiresAtChoices(now) :
        handleCreateScoutStoreError(s, q, e, x)

NextCreate ==
    \E s \in {"s1"} :
        \/ Create(s)
        \/ CreateStoreError(s)
        \/ EngineStep(s)
        \/ Wake(s)

SpecCreate == Init /\ [][NextCreate]_vars

(***************************************************************************)
(* SpecDelete: one scout on a page that shows A, then B, deleted at any    *)
(* point between two steps; the termination of its instance may fail.      *)
(***************************************************************************)
NextDelete ==
    \E s \in {"s1"} :
        \/ TwinStep(s)
        \/ handleDeleteScoutTerminate(s, FALSE)
        \/ handleDeleteScoutTerminateFails(s)
        \/ handleDeleteScoutWipe(s)

SpecDelete == Init /\ [][NextDelete]_vars

(***************************************************************************)
(* SpecCycle: one scout, no restarts, its config written once; the page   *)
(* is empty, a long text or the first maxSnapshotTextLength characters of  *)
(* that text, or cannot be fetched; the analyzer and the dedup model       *)
(* answer anything they can, well-formed or not.                           *)
(***************************************************************************)
CycleTexts == {EmptyText,
               [id |-> "B", len |-> maxSnapshotTextLength],
               [id |-> "B", len |-> 2 * maxSnapshotTextLength]}

NextCycle ==
    \E s \in {"s1"} :
        \/ handleCreateScout(s, <<"g", "p", "u">>, <<"u", "@", "e">>, NoTime)
        \/ LoadConfig(s) \/ ExpireCheck(s) \/ EmailCount(s)
        \/ \E text \in CycleTexts : FetchOk(s, text)
        \/ FetchFail(s)
        \/ Snapshot(s) \/ SaveSnapshot(s)
        \/ \E response \in AnalyzerResponses : Analyze(s, analyzeChange(response))
        \/ \E reply \in DedupReplies : Dedupe(s, dedupAnswer(reply))
        \/ HashEvent(s) \/ RecordEvent(s)
        \/ EmailOk(s, MaxSends)
        \/ Wait(s) \/ Wake(s)

SpecCycle == Init /\ [][NextCycle]_vars

(***************************************************************************)
(* SpecStore: the routes of one ScoutDO called in any order with any       *)
(* arguments.  api.last is the route called last and what it returned.     *)
(***************************************************************************)
\* the store's counter may be incremented MaxCount times in SpecStore
MaxCount == 2

\* the event ids POSTed to /event in SpecStore
StoreEventIds ==
    {eventIdOf(SourceUrl("s1"), EmptyHash, hashText(b)) : b \in FetchTexts}

Called(s, op, info) ==
    [op |-> op, status |-> 200, scoutId |-> s, expiresAt |-> NoTime, at |-> now]
    @@ info

DoSaveConfig(s, lifetime) ==
    /\ store' = [store EXCEPT ![s] =
                    saveConfig(@, [scoutId |-> s, createdAt |-> now,
                                   expiresAt |-> now + lifetime,
                                   sources |-> {SourceUrl(s)}])]
    /\ api' = [api EXCEPT !.last = Called(s, "saveConfig", <<>>)]
    /\ UNCHANGED <<eng, now, sent, issued>>

DoSaveSnapshot(s, text) ==
    /\ store' = [store EXCEPT ![s] =
                    saveSnapshot(@, [url |-> SourceUrl(s), contentHash |-> hashText(text),
                                     text |-> text], now)]
    /\ api' = [api EXCEPT !.last = Called(s, "saveSnapshot", <<>>)]
    /\ UNCHANGED <<eng, now, sent, issued>>

\* api.last remembers the log's length before the call, whether the call
\* before was a POST /event of the same, then unknown, eventId (prevSame),
\* and the log's length before that call
DoRecordEvent(s, eventId) ==
    /\ LET r == recordEvent(store[s], [eventId |-> eventId, sourceUrl |-> SourceUrl(s),
                                       summary |-> "RTX 5090 in stock",
                                       detectedAt |-> now])
       IN  /\ store' = [store EXCEPT ![s] = r.store]
           /\ api' = [api EXCEPT !.last =
                        Called(s, "recordEvent",
                               [eventId |-> eventId, resp |-> r.resp,
                                before |-> Len(store[s].events),
                                known |-> \E i \in 1..Len(store[s].events) :
                                             store[s].events[i].eventId = eventId,
                                prevSame |-> /\ api.last.op = "recordEvent"
                                             /\ api.last.eventId = eventId
                                             /\ ~api.last.known,
                                prevBefore |-> IF api.last.op = "recordEvent"
                                               THEN api.last.before ELSE 0])]
    /\ UNCHANGED <<eng, now, sent, issued>>

DoIncrementEmailCount(s) ==
    /\ getEmailCount(store[s], now) < MaxCount
    /\ store' = [store EXCEPT ![s] = incrementEmailCount(@, now)]
    /\ api' = [api EXCEPT !.last =
                 Called(s, "incrementEmailCount",
                        [count |-> incrementEmailCountResponse(store[s], now)])]
    /\ UNCHANGED <<eng, now, sent, issued>>

DoGetEmailCount(s) ==
    /\ api' = [api EXCEPT !.last =
                 Called(s, "getEmailCount", [count |-> getEmailCount(store[s], now)])]
    /\ UNCHANGED <<store, eng, now, sent, issued>>

DoWipe(s) ==
    /\ store' = [store EXCEPT ![s] = wipe(@)]
    /\ api' = [api EXCEPT !.last = Called(s, "wipe", <<>>)]
    /\ UNCHANGED <<eng, now, sent, issued>>

NextStore ==
    \/ Tick
    \/ \E s \in {"s1"} :
        \/ \E lifetime \in Lifetimes : DoSaveConfig(s, lifetime)
        \/ \E text \in FetchTexts : DoSaveSnapshot(s, text)
        \/ \E eventId \in StoreEventIds : DoRecordEvent(s, eventId)
        \/ DoIncrementEmailCount(s)
        \/ DoGetEmailCount(s)
        \/ DoWipe(s)

SpecStore == Init /\ [][NextStore]_vars

(***************************************************************************)
(* SpecGate: one scout on a page that changes in every cycle to a text     *)
(* never shown before, in the late cycles also back to the text of two     *)
(* cycles earlier; every change is an event and every email goes out, so   *)
(* that the daily limit is reached.  A day may pass.                       *)
(***************************************************************************)
\* the engine of SpecGate starts at most MaxCycleGate cycles
MaxCycleGate == 14
\* at most MaxSendsGate provider sends in SpecGate
MaxSendsGate == 14

GateText(c) == [id |-> <<"T", c>>, len |-> 100]

GateTexts(c) ==
    {GateText(c)}
    \cup (IF c > maxEmailsPerScoutPerDay + 1 THEN {GateText(c - 2)} ELSE {})

NextGate ==
    \/ Tick
    \/ \E s \in {"s1"} :
          \/ handleCreateScout(s, <<"g", "p", "u">>, <<"u", "@", "e">>, NoTime)
          \/ LoadConfig(s)
          \/ ExpireCheck(s)
          \/ EmailCount(s)
          \/ \E text \in GateTexts(eng[s].cycle) : FetchOk(s, text)
          \/ Snapshot(s)
          \/ SaveSnapshot(s)
          \/ Analyze(s, AnalysisOfCycle(eng[s]))
          \/ Dedupe(s, FALSE)
          \/ HashEvent(s)
          \/ RecordEvent(s)
          \/ EmailOk(s, MaxSendsGate)
          \/ Wait(s)
          \/ (eng[s].cycle + 1 < MaxCycleGate /\ WakeUp(s))

SpecGate == Init /\ [][NextGate]_vars

(***************************************************************************)
(* SpecLimit: the scout of SpecGate, with a UTC day that may end at any    *)
(* point of any cycle, also after the daily limit has been reached.        *)
(***************************************************************************)
\* the clock of SpecLimit stays below MaxNowLimit
MaxNowLimit == 1600

\* a UTC day goes by
Midnight ==
    /\ now + MinutesPerDay <= MaxNowLimit
    /\ now' = now + MinutesPerDay
    /\ UNCHANGED <<store, eng, sent, issued, api>>

NextLimit ==
    \/ Midnight
    \/ \E s \in {"s1"} :
          \/ handleCreateScout(s, <<"g", "p", "u">>, <<"u", "@", "e">>, NoTime)
          \/ LoadConfig(s)
          \/ ExpireCheck(s)
          \/ EmailCount(s)
          \/ FetchOk(s, GateText(eng[s].cycle))
          \/ Snapshot(s)
          \/ SaveSnapshot(s)
          \/ Analyze(s, AnalysisOfCycle(eng[s]))
          \/ Dedupe(s, FALSE)
          \/ HashEvent(s)
          \/ RecordEvent(s)
          \/ EmailOk(s, MaxSendsGate)
          \/ Wait(s)
          \/ (eng[s].cycle + 1 < MaxCycleGate /\ WakeUp(s))

SpecLimit == Init /\ [][NextLimit]_vars

(***************************************************************************)
(* SpecApi: the control plane.  Scouts are created from any request body,  *)
(* read and deleted (ids never created included) while the engine of s1    *)
(* polls a page that shows A in cycle 0 and B from cycle 1 on.             *)
(***************************************************************************)
NextApi ==
    \/ \E s \in {"s1"} :
          \/ Create(s)
          \/ LoadConfig(s)
          \/ ExpireCheck(s)
          \/ EmailCount(s)
          \/ FetchOk(s, FetchedInCycle(eng[s].cycle))
          \/ Snapshot(s)
          \/ SaveSnapshot(s)
          \/ Analyze(s, AnalysisOfCycle(eng[s]))
          \/ Dedupe(s, FALSE)
          \/ HashEvent(s)
          \/ RecordEvent(s)
          \/ EmailOk(s, MaxSends)
          \/ Wait(s)
          \/ Wake(s)
          \/ StepInFlight(s)
    \/ \E s \in Scouts :
          \/ handleGetScoutConfig(s)
          \/ handleGetScoutEvents(s)
          \/ \E midStep \in BOOLEAN : handleDeleteScoutTerminate(s, midStep)
          \/ handleDeleteScoutWipe(s)

SpecApi == Init /\ [][NextApi]_vars

(***************************************************************************)
(* SpecPair: two scouts side by side, each created and polled on its own   *)
(* (page A in cycle 0, B from cycle 1 on); s1 is also deleted.             *)
(***************************************************************************)
\* DELETE /api/scouts/s, and what it leaves of a step in progress
DeleteStep(s) ==
    \/ \E midStep \in BOOLEAN : handleDeleteScoutTerminate(s, midStep)
    \/ handleDeleteScoutWipe(s)
    \/ StepInFlight(s)

\* what is done for, or by the engine of, scout s
StepOf(s) == TwinStep(s) \/ DeleteStep(s)

NextPair ==
    \/ \E s \in Scouts : TwinStep(s)
    \/ DeleteStep("s1")

SpecPair == Init /\ [][NextPair]_vars

(***************************************************************************)
(* Claims.                                                                 *)
(***************************************************************************)
\* the emails dispatched for scout s on UTC day d
SentOn(s, d) == Cardinality({i \in 1..Len(sent[s]) : sent[s][i].dateKey = d})

\* C1 (as claimed): for every scout and every eventId at most one email is
\* dispatched, also when the engine is restarted after the provider send and
\* before the email step's outcome is persisted
C1_AtMostOneEmailPerEvent ==
    \A s \in Scouts : \A i, j \in 1..Len(sent[s]) :
        i # j => sent[s][i].eventId # sent[s][j].eventId

\* C2: the event log holds at most one row per eventId; recordEvent reports
\* a duplicate exactly when the eventId is known and then leaves the log as
\* it is, otherwise the log grows by one row; recordEvent(e) twice in a row,
\* for an e the log did not hold, grows the log by exactly 1
C2_RecordEventIdempotent ==
    /\ \A s \in Scouts : \A i, j \in 1..Len(store[s].events) :
          i # j => store[s].events[i].eventId # store[s].events[j].eventId
    /\ api.last.op = "recordEvent" =>
          LET n == Len(store[api.last.scoutId].events)
          IN  /\ api.last.resp.ok
              /\ api.last.resp.duplicate = api.last.known
              /\ n = api.last.before + (IF api.last.known THEN 0 ELSE 1)
              /\ api.last.prevSame => n = api.last.prevBefore + 1

\* C2 witness: recordEvent(e); recordEvent(e) was called on a log that did
\* not hold e, and the second call reported the duplicate
C2_Witness ==
    /\ api.last.op = "recordEvent"
    /\ api.last.prevSame
    /\ api.last.resp.duplicate
    /\ api.last.prevBefore = 1
    /\ Len(store[api.last.scoutId].events) = 2


\* C5 (as claimed): at every step boundary, also right after a restart of
\* the email step, the emails dispatched today are as many as today's
\* counter says: none was sent without being counted, none counted without
\* being sent
C5_SendAndCountTogether ==
    \A s \in Scouts : SentOn(s, DateKey(now)) = getEmailCount(store[s], now)

\* the cycle in progress loaded a snapshot that is absent or has an empty hash
BaselineCycle(s) ==
    /\ eng[s].status = "running"
    /\ eng[s].pc \in {"save-snapshot", "analyze", "dedupe", "hash-event",
                      "record-event", "email", "wait"}
    /\ \/ ~eng[s].lastSnapshot.present
       \/ eng[s].lastSnapshot.contentHash = EmptyHash

\* C6: no step of a baseline cycle records an event, sends an email or
\* counts one; after the snapshot is saved the cycle goes straight to the
\* sleep, without analysis
C6_BaselineNeverEmits ==
    [][\A s \in Scouts :
          BaselineCycle(s) =>
             /\ store'[s].events = store[s].events
             /\ store'[s].email_counter = store[s].email_counter
             /\ sent'[s] = sent[s]
             /\ eng'[s].pc \in {"save-snapshot", "wait"}]_vars

\* C6 witness: a baseline cycle has saved its snapshot and is about to sleep
C6_Witness ==
    \E s \in Scouts :
        /\ BaselineCycle(s)
        /\ eng[s].pc = "wait"
        /\ eng[s].fetchResult.hash # EmptyHash
        /\ getSnapshot(store[s], SourceUrl(s)).contentHash = eng[s].fetchResult.hash
        /\ store[s].events = <<>>

\* the cycle in progress is at its hard-stop test with now >= expiresAt
ObservesExpiry(s) ==
    /\ eng[s].status = "running"
    /\ eng[s].pc = "expire-check"
    /\ eng[s].config.expiresAt # NoTime
    /\ now >= eng[s].config.expiresAt

\* in this step no event is recorded, no email is sent and no snapshot written
NoOutput(s) ==
    /\ store'[s].events = store[s].events
    /\ sent'[s] = sent[s]
    /\ \A r \in store'[s].sources : r.lastHash # EmptyHash => r \in store[s].sources

\* C7: a cycle that observes now >= expiresAt returns at that test, and an
\* engine that has returned takes no further step: from the observation on
\* no snapshot is written, no event recorded and no email sent
C7_NothingAfterExpiry ==
    [][\A s \in Scouts :
          /\ ObservesExpiry(s) =>
                /\ NoOutput(s)
                /\ eng'[s] # eng[s] => eng'[s].status = "complete"
          /\ eng[s].status = "complete" => eng'[s] = eng[s] /\ NoOutput(s)]_vars

\* C7 witness: the engine returned at the hard-stop test of a cycle after
\* the first, exactly at now = expiresAt or later
C7_Witness ==
    \E s \in Scouts :
        /\ eng[s].status = "complete"
        /\ eng[s].pc = "expire-check"
        /\ eng[s].cycle >= 1
        /\ now >= eng[s].config.expiresAt

\* C9 (as claimed): every stored config has an expiresAt, with
\* createdAt <= expiresAt <= createdAt + maxLifetimeHours; the config a
\* Create without expiresAt has just written expires defaultLifetimeHours
\* after createdAt
C9_ExpiresAtStored ==
    \A s \in Scouts : \A r \in store[s].config :
        /\ r.expiresAt # NoTime
        /\ r.createdAt <= r.expiresAt
        /\ r.expiresAt <= r.createdAt + maxLifetimeHours * MinutesPerHour
        /\ (/\ api.last.op = "create" /\ api.last.scoutId = s
            /\ api.last.expiresAt = NoTime /\ eng[s].pc = "load-config"
            /\ eng[s].cycle = 0)
           => r.expiresAt = r.createdAt + defaultLifetimeHours * MinutesPerHour

\* C10 (as claimed): a Create whose expiresAt lies beyond createdAt +
\* maxLifetimeHours is rejected: no 201, no scoutId, no config, no engine
C10_RejectBeyondMaxLifetime ==
    (/\ api.last.op = "create"
     /\ api.last.expiresAt # NoTime
     /\ api.last.expiresAt > api.last.at + maxLifetimeHours * MinutesPerHour)
    => /\ api.last.status # 201
       /\ api.last.scoutId = "-"
       /\ issued = {}


\* the events, the snapshot, the day's email count and the emails of a scout,
\* without the timestamps and without the scout's own source URL
Observable(s) ==
    [events |-> [i \in 1..Len(store[s].events) |->
                    <<SubSeq(store[s].events[i].eventId[2], Len(SourceUrl(s)) + 1,
                             Len(store[s].events[i].eventId[2])),
                      store[s].events[i].summary>>],
     snapshot |-> [contentHash |-> getSnapshot(store[s], SourceUrl(s)).contentHash,
                   text |-> getSnapshot(store[s], SourceUrl(s)).text],
     emailCount |-> getEmailCount(store[s], now),
     emails |-> [i \in 1..Len(sent[s]) |->
                    SubSeq(sent[s][i].eventId[2], Len(SourceUrl(s)) + 1,
                           Len(sent[s][i].eventId[2]))]]

\* the engine has run all the cycles of the bounded run and sleeps
RanAllCycles(s) == eng[s].status = "sleeping" /\ eng[s].cycle = MaxCycle - 1

\* C3 (as claimed): with the same fetch and model outputs, the run that was
\* restarted inside a cycle ends with the events, snapshot, email count and
\* emails of the crash-free run
C3_SameFinalStateAsCrashFree ==
    (RanAllCycles("s1") /\ RanAllCycles("s2")) => Observable("s1") = Observable("s2")

\* C4 (as claimed): no counter row exceeds maxEmailsPerScoutPerDay and no more
\* than that many emails are dispatched on one UTC day
C4_DailyCountWithinLimit ==
    \A s \in Scouts :
        /\ \A r \in store[s].email_counter : r.count <= maxEmailsPerScoutPerDay
        /\ \A i \in 1..Len(sent[s]) :
              SentOn(s, sent[s][i].dateKey) <= maxEmailsPerScoutPerDay


\* C8 (as claimed): the engine of a created scout stops polling (returns or
\* fails) only when its deadline expiresAt, as it loaded it or as it is stored,
\* has been reached; a deleted scout's engine is terminated, any other engine
\* is running or sleeping
C8_PollsUntilDeletedOrExpired ==
    \A s \in Scouts :
        eng[s].status \in {"complete", "errored"} =>
            \/ Expired(eng[s].memoExp, now)
            \/ \E r \in store[s].config : Expired(r.expiresAt, now)

C12_StoreFullOrAbsent ==
    \A s \in Scouts :
        /\ store[s].config = {} => store[s] = EmptyStore
        /\ store[s].config # {} => store[s].sources # {}

FetchNotDone(s) ==
    /\ eng[s].status \in {"running", "sleeping"}
    /\ eng[s].pc \in {"fetch", "wait"}
    /\ eng[s].fetchResult = NoFetch

\* C14: a step of the engine in a cycle whose fetch has not succeeded, the
\* step that gives the source up after the retries included, leaves the stored
\* snapshot, the event log and the emails as they were and does not fail the run
C14_FetchFailureSkipsSource ==
    [][\A s \in Scouts :
          (FetchNotDone(s) /\ eng'[s] # eng[s]) =>
              /\ store'[s] = store[s]
              /\ sent'[s] = sent[s]
              /\ eng'[s].status # "errored"]_vars

\* cycle 1 gave its source up, cycle 2 compares against the snapshot of cycle 0
C14_Witness ==
    \E s \in Scouts :
        /\ Running(s, "analyze") /\ eng[s].cycle = 2
        /\ eng[s].lastSnapshot.present
        /\ eng[s].lastSnapshot.contentHash # EmptyHash
        /\ eng[s].lastSnapshot.checkedAt = 0

\* C15: an event inserted in a cycle whose rate-limit check found the day's
\* count at the maximum is in the log with notified = false, and no email was
\* ever sent for it, in that cycle or in a later one
C15_GatedEventNeverEmailed ==
    \A s \in Scouts : \A x \in eng[s].gated :
        /\ \E i \in 1..Len(store[s].events) :
              store[s].events[i].eventId = x /\ ~store[s].events[i].notified
        /\ \A j \in 1..Len(sent[s]) : sent[s][j].eventId # x

\* ten emails went out, the eleventh event was inserted without one, and a
\* later cycle has detected the same change again
C15_Witness ==
    \E s \in Scouts :
        /\ Len(sent[s]) = maxEmailsPerScoutPerDay
        /\ Len(store[s].events) > maxEmailsPerScoutPerDay
        /\ eng[s].eventId \in eng[s].gated
        /\ eng[s].recorded.ok /\ eng[s].recorded.duplicate

\* C16 (as claimed): an event of the log has notified = true exactly when an
\* email was dispatched for it
C16_NotifiedIffDispatched ==
    \A s \in Scouts : \A i \in 1..Len(store[s].events) :
        store[s].events[i].notified
            <=> \E j \in 1..Len(sent[s]) :
                    sent[s][j].eventId = store[s].events[i].eventId

\* C17 (as claimed): an email goes out only in a cycle in which the fetched
\* hash differs from the hash of the previous snapshot, the analyzer reported
\* an event, the dedup check said not duplicate and the event was new to the log
C17_EmailOnlyWhenAllFour ==
    [][\A s \in Scouts :
          sent'[s] # sent[s] =>
              /\ eng[s].fetchResult.hash # eng[s].lastSnapshot.contentHash
              /\ eng[s].analysis.is_event
              /\ ~eng[s].isDuplicate
              /\ eng[s].recorded.ok /\ ~eng[s].recorded.duplicate]_vars

\* a query of spaces only, an email without characters or without "@"
InvalidCreate(query, email) ==
    \/ \A i \in 1..Len(query) : query[i] = " "
    \/ \A i \in 1..Len(email) : email[i] = " "
    \/ \A i \in 1..Len(email) : email[i] # "@"

\* C18: a Create scout request with an invalid query or email is answered
\* 400 and changes no store and no engine, and issues no scout id
C18_InvalidCreateHasNoEffect ==
    [][(/\ api'.last # api.last
        /\ api'.last.op = "create"
        /\ InvalidCreate(api'.last.query, api'.last.email))
       => /\ api'.last.status = 400
          /\ api'.last.scoutId = "-"
          /\ store' = store /\ eng' = eng /\ issued' = issued /\ sent' = sent]_vars

\* a whitespace-only query was refused and no scout exists
C18_Witness ==
    /\ api.last.op = "create" /\ api.last.status = 400
    /\ api.last.query = <<" ">>
    /\ api.last.email = <<"u", "@", "e">>
    /\ issued = {}
    /\ \A s \in Scouts : store[s] = EmptyStore /\ eng[s].status = "none"

\* C19: whatever is done for scout a (its creation, its deletion, a step of
\* its engine) leaves the store of every other scout b as it was
C19_EnginesIsolated ==
    [][\A a \in Scouts :
          StepOf(a) => \A b \in Scouts \ {a} : store'[b] = store[b]]_vars

\* both scouts have recorded their event and sent their email, each in its
\* own store
C19_Witness ==
    \A s \in Scouts :
        /\ Len(store[s].events) = 1
        /\ store[s].events[1].sourceUrl = SourceUrl(s)
        /\ getEmailCount(store[s], now) = 1
        /\ Len(sent[s]) = 1

\* urls (some with the separator and with what looks like a hash inside), old
\* hashes (none, or a digest) and new hashes (a digest)
EventTriples ==
    {<<"u">>, <<"u", "|">>, <<"u", "|", "sha256", "a">>, <<"u", "|", "sha256", "a", "|">>}
    \X {<<>>, <<"sha256", "a">>, <<"sha256", "b">>}
    \X {<<"sha256", "a">>, <<"sha256", "b">>}

\* distinct triples have distinct event ids
EventIdInjective ==
    \A t, u \in EventTriples :
        eventIdOf(t[1], t[2], t[3]) = eventIdOf(u[1], u[2], u[3]) => t = u

\* the hashes a snapshot or a fetch can carry
PageHashes == {hashText(text) : text \in FetchTexts}

Ended(s) == eng[s].status \in {"complete", "terminated", "errored"}

\* C21: every engine instance terminates: its cycle index stays below
\* maxCycles, once its run is over it takes no step, writes no snapshot,
\* records no event and sends no email, and under fair scheduling of steps
\* and sleeps a started engine eventually reaches its end
C21_EngineTerminates ==
    /\ [](\A s \in Scouts : eng[s].cycle < maxCycles)
    /\ [][\A s \in Scouts : Ended(s) => eng'[s] = eng[s] /\ NoOutput(s)]_vars
    /\ \A s \in Scouts : (eng[s].status # "none") ~> Ended(s)

\* C21 witness: the engine returned normally after its last permitted cycle,
\* with a deadline that has not passed
C21_Witness ==
    \E s \in Scouts :
        /\ eng[s].status = "complete"
        /\ eng[s].cycle = maxCycles - 1
        /\ ~Expired(eng[s].memoExp, now)

C22_SameHashAnalyzed ==
    \E s \in Scouts :
        /\ Running(s, "analyze")
        /\ eng[s].lastSnapshot.contentHash = eng[s].fetchResult.hash

\* the cycle in progress passed its hard-stop test before expiresAt, and
\* expiresAt has been reached since
ExpiredMidCycle(s) ==
    /\ eng[s].status = "running"
    /\ eng[s].pc \notin {"load-config", "expire-check"}
    /\ Expired(eng[s].config.expiresAt, now)

StoppedUnnotified(s) ==
    /\ eng[s].status = "errored"
    /\ eng[s].pc = "email"
    /\ eng[s].tries = emailRetryLimit
    /\ \E i \in 1..Len(store[s].events) : store[s].events[i].eventId = eng[s].eventId
    /\ \A i \in 1..Len(sent[s]) : sent[s][i].eventId # eng[s].eventId

\* C24 (as claimed): a send that fails on the initial try and on each of
\* the emailRetryLimit retries does not leave the engine stopped with the
\* event un-notified (a failed run takes no further step, so an engine in
\* that state stays in it)
C24_FailedEmailCycleIsRetried ==
    \A s \in Scouts : ~StoppedUnnotified(s)

\* the steps of a cycle up to and including the dedup step
StepsToDedupe == {"load-config", "expire-check", "email-count", "fetch", "snapshot",
                  "save-snapshot", "analyze", "dedupe"}

\* C25: a dedup step that returns duplicate ends the cycle's work: the next
\* thing the engine does is its sleep; no step of the cycle, before or after
\* the dedup step, changes the event log, the email counter or the emails
\* sent, and the stored snapshot is the content fetched in the cycle
C25_DuplicateRecordsAndSendsNothing ==
    /\ [][\A s \in Scouts :
             /\ (Running(s, "dedupe") /\ eng'[s].isDuplicate)
                => eng'[s].status = "running" /\ eng'[s].pc = "wait"
             /\ (\/ eng[s].status = "running" /\ eng[s].pc \in StepsToDedupe
                 \/ eng[s].status = "running" /\ eng[s].isDuplicate)
                => /\ store'[s].events = store[s].events
                   /\ store'[s].email_counter = store[s].email_counter
                   /\ sent'[s] = sent[s]]_vars
    /\ [](\A s \in Scouts :
             (eng[s].status = "running" /\ eng[s].isDuplicate)
             => getSnapshot(store[s], SourceUrl(s)).contentHash = eng[s].fetchResult.hash)

\* C25 witness: a cycle whose dedup step returned duplicate is at its sleep,
\* with the earlier event in the log and the snapshot overwritten by content
\* other than the previous snapshot's
C25_Witness ==
    \E s \in Scouts :
        /\ Running(s, "wait")
        /\ eng[s].isDuplicate
        /\ Len(store[s].events) = 1
        /\ eng[s].lastSnapshot.contentHash # eng[s].fetchResult.hash
        /\ getSnapshot(store[s], SourceUrl(s)).contentHash = eng[s].fetchResult.hash

\* the dedup step takes this step with the given reply of the model call
DedupeWith(s, reply) == Dedupe(s, dedupAnswer(reply))

\* C26: a dedup step whose model call throws, answers without a JSON
\* object or answers one that does not parse, and a dedup step that finds
\* no previous event, returns not-duplicate: the cycle goes on to hash-event
\* and record-event, and from a record-event that inserted the event, with
\* the count read in the cycle under the limit, to the email step
C26_DedupFailureIsNotDuplicate ==
    [][\A s \in Scouts :
          /\ \A reply \in DedupReplies :
                (DedupeWith(s, reply) /\ (reply.kind # "json" \/ store[s].events = <<>>))
                => /\ ~eng'[s].isDuplicate
                   /\ eng'[s].status = "running" /\ eng'[s].pc = "hash-event"
          /\ (Running(s, "hash-event") /\ eng'[s] # eng[s])
             => eng'[s].status = "running" /\ eng'[s].pc = "record-event"
          /\ (Running(s, "record-event") /\ eng'[s] # eng[s])
             => /\ \E i \in 1..Len(store'[s].events) :
                     store'[s].events[i].eventId = eng[s].eventId
                /\ (Len(store'[s].events) > Len(store[s].events) /\ canSendEmail(eng[s]))
                   => eng'[s].status = "running" /\ eng'[s].pc = "email"]_vars

\* C26 witness: the email step is reached for the first event of the log,
\* whose dedup step found no previous event
C26_Witness ==
    \E s \in Scouts :
        /\ Running(s, "email")
        /\ ~eng[s].isDuplicate
        /\ Len(store[s].events) = 1
        /\ store[s].events[1].eventId = eng[s].eventId

\* the analyze step takes this step with the given response of the model call
AnalyzeWith(s, response) == Analyze(s, analyzeChange(response))

\* C27: an analyzer response without a JSON object, or with one that does
\* not parse, gives isEvent = false; the analyze step is then followed by
\* the sleep, with no dedup step, no event recorded and no email sent in
\* the cycle, and the engine wakes into the next cycle
C27_UnparsableAnalysisIsNoEvent ==
    /\ [][\A s \in Scouts :
             /\ \A response \in AnalyzerResponses :
                   (AnalyzeWith(s, response) /\ response.kind # "json")
                   => /\ ~eng'[s].analysis.is_event
                      /\ eng'[s].status = "running" /\ eng'[s].pc = "wait"
             /\ (eng[s].status = "running" /\ eng[s].pc \in {"analyze", "wait"})
                => /\ store'[s] = store[s]
                   /\ sent'[s] = sent[s]
             /\ (Running(s, "wait") /\ eng'[s] # eng[s])
                => eng'[s].status = "sleeping" /\ eng'[s].cycle = eng[s].cycle
             /\ (eng[s].status = "sleeping" /\ eng'[s] # eng[s])
                => /\ eng'[s].status = "running" /\ eng'[s].pc = "load-config"
                   /\ eng'[s].cycle = eng[s].cycle + 1]_vars
    /\ [](\A s \in Scouts :
             (eng[s].status = "running"
                /\ eng[s].pc \in {"dedupe", "hash-event", "record-event", "email"})
             => eng[s].analysis.is_event)

\* C27 witness: a cycle whose analyzer response could not be parsed is at
\* its sleep, having fetched content other than the previous snapshot's
C27_Witness ==
    \E s \in Scouts :
        /\ Running(s, "wait")
        /\ eng[s].analysis = [is_event |-> FALSE, summary |-> "Could not parse AI response"]
        /\ eng[s].lastSnapshot.contentHash # eng[s].fetchResult.hash

\* C28: the rows of the event log are in non-decreasing detectedAt order of
\* insertion; every listing of GET /events holds each row once, in
\* non-increasing detectedAt order; so the summaries the dedup step takes
\* are those of the first dedupeLookback rows of the listing, and no row
\* left out was detected later than a row taken
C28_DedupSeesMostRecentEvents ==
    \A s \in Scouts :
        LET ev == store[s].events
            n == Len(ev)
            k == Min(n, dedupeLookback)
        IN  /\ \A i, j \in 1..n : i < j => ev[i].detectedAt <= ev[j].detectedAt
            /\ \A listing \in getEvents(store[s]) :
                  /\ Len(listing) = n
                  /\ {listing[i] : i \in 1..n} = 1..n
                  /\ \A i, j \in 1..n :
                        i < j => ev[listing[i]].detectedAt >= ev[listing[j]].detectedAt
                  /\ recentSummaries(store[s], listing)
                        = [i \in 1..k |-> ev[listing[i]].summary]
                  /\ \A i \in 1..k : \A j \in 1..n :
                        j \notin {listing[m] : m \in 1..k}
                        => ev[j].detectedAt <= ev[listing[i]].detectedAt

\* C28 witness: the dedup step runs over a log of more than dedupeLookback
\* events detected at different times
C28_Witness ==
    \E s \in Scouts :
        /\ Running(s, "dedupe")
        /\ Len(store[s].events) > dedupeLookback
        /\ store[s].events[1].detectedAt < store[s].events[dedupeLookback + 1].detectedAt

\* today's count in the counter table, 0 without a row for today
TodaysCount(s) ==
    IF \E r \in store[s].email_counter : r.dateKey = DateKey(now)
    THEN (CHOOSE r \in store[s].email_counter : r.dateKey = DateKey(now)).count
    ELSE 0

\* C29: the counter table never holds more than one row; POST /email-count
\* leaves exactly today's row, with the count it had before plus 1 (1 when
\* there was none), and answers that count; GET /email-count changes
\* nothing and answers today's count, 0 when the stored row is of another day
C29_CounterSingleRow ==
    /\ [](\A s \in Scouts : Cardinality(store[s].email_counter) <= 1)
    /\ [][\A s \in Scouts :
             /\ DoIncrementEmailCount(s)
                => /\ store'[s].email_counter =
                         {[dateKey |-> DateKey(now), count |-> TodaysCount(s) + 1]}
                   /\ api'.last.count = TodaysCount(s) + 1
             /\ DoGetEmailCount(s)
                => /\ api'.last.count = TodaysCount(s)
                   /\ (\A r \in store[s].email_counter : r.dateKey # DateKey(now))
                      => api'.last.count = 0]_vars

\* C29 witness: GET /email-count answered 0 while the table's one row is an
\* earlier day's count
C29_Witness ==
    /\ api.last.op = "getEmailCount"
    /\ api.last.count = 0
    /\ api.last.at = now
    /\ \E r \in store[api.last.scoutId].email_counter :
          r.dateKey < DateKey(now) /\ r.count > 0

\* POST /email-count on a later day replaced the earlier day's row
C29_OldRowReplaced ==
    /\ api.last.op = "incrementEmailCount"
    /\ api.last.count = 1
    /\ DateKey(api.last.at) > 0
    /\ store[api.last.scoutId].email_counter = {[dateKey |-> DateKey(api.last.at), count |-> 1]}

\* C30 (as claimed): after POST /snapshot {url, contentHash, text}, for any
\* url, GET /snapshot for that url answers a snapshot with that contentHash,
\* the text cut to maxSnapshotTextLength and checkedAt set to the time of
\* the POST
C30_PutThenGetReturnsSnapshot ==
    [][\A s \in Scouts : \A text \in FetchTexts :
          DoSaveSnapshot(s, text)
          => getSnapshot(store'[s], SourceUrl(s)) =
               [present |-> TRUE, contentHash |-> hashText(text),
                text |-> Slice(text, maxSnapshotTextLength), checkedAt |-> now]]_vars

\* the order of the steps of one cycle: each step and the steps that may
\* come next in the same cycle
CycleOrder ==
    {<<"load-config", "expire-check">>, <<"expire-check", "email-count">>,
     <<"email-count", "fetch">>, <<"fetch", "snapshot">>, <<"fetch", "wait">>,
     <<"snapshot", "save-snapshot">>, <<"save-snapshot", "analyze">>,
     <<"save-snapshot", "wait">>, <<"analyze", "dedupe">>, <<"analyze", "wait">>,
     <<"dedupe", "hash-event">>, <<"dedupe", "wait">>,
     <<"hash-event", "record-event">>, <<"record-event", "email">>,
     <<"record-event", "wait">>, <<"email", "wait">>}

\* C31: the steps of a cycle follow one another in the order of run(); a
\* snapshot is written only by the save-snapshot step, after the snapshot
\* step of the cycle has read the previous one; the analyzer's result is
\* taken only by the analyze step, which follows save-snapshot; and an
\* email goes out only from the email step of a cycle whose record-event
\* step was answered {ok: true, duplicate: false} for the event emailed,
\* which is then in the log
C31_StepsInOrder ==
    [][\A s \in Scouts :
          /\ (/\ eng[s].status = "running" /\ eng'[s].status = "running"
              /\ eng'[s].pc # eng[s].pc)
             => <<eng[s].pc, eng'[s].pc>> \in CycleOrder
          /\ (\E r \in store'[s].sources : r.lastHash # EmptyHash /\ r \notin store[s].sources)
             => /\ Running(s, "save-snapshot")
                /\ eng[s].lastSnapshot.present
          /\ (eng[s].status = "running" /\ eng'[s].analysis # eng[s].analysis
                /\ eng'[s].status = "running")
             => eng[s].pc = "analyze"
          /\ sent'[s] # sent[s]
             => /\ Running(s, "email")
                /\ eng[s].recorded = [ok |-> TRUE, duplicate |-> FALSE]
                /\ Len(sent'[s]) = Len(sent[s]) + 1
                /\ sent'[s][Len(sent'[s])].eventId = eng[s].eventId
                /\ \E i \in 1..Len(store[s].events) :
                      store[s].events[i].eventId = eng[s].eventId]_vars

\* C31 witness: a cycle is at its sleep after its record-event step inserted
\* the event and its email step sent the email for it
C31_Witness ==
    \E s \in Scouts :
        /\ Running(s, "wait")
        /\ eng[s].recorded = [ok |-> TRUE, duplicate |-> FALSE]
        /\ Len(sent[s]) > 0
        /\ sent[s][Len(sent[s])].eventId = eng[s].eventId
        /\ \E i \in 1..Len(store[s].events) : store[s].events[i].eventId = eng[s].eventId

\* the steps of a cycle that come after save-snapshot
StepsAfterSave == {"analyze", "dedupe", "hash-event", "record-event", "email", "wait"}

\* C32: when the save-snapshot step of a cycle is done, the stored
\* contentHash of the source is the hash fetched in that cycle, in the
\* baseline cycle too, and no later step of the cycle changes the sources
\* table, whether the cycle ends without an event, with a duplicate, with
\* an event that may not be emailed, or with a failing email step
C32_SnapshotSavedRegardless ==
    [][\A s \in Scouts :
          /\ (Running(s, "save-snapshot") /\ eng'[s].pc # "save-snapshot")
             => getSnapshot(store'[s], SourceUrl(s)).contentHash = eng[s].fetchResult.hash
          /\ (/\ eng[s].status = "running" /\ eng[s].pc \in StepsAfterSave
              /\ eng'[s] # eng[s])
             => store'[s].sources = store[s].sources]_vars

\* C32 witness: the email step of a cycle has failed for good, and the
\* stored contentHash is the hash fetched in that cycle, not the previous one
C32_Witness ==
    \E s \in Scouts :
        /\ eng[s].status = "errored" /\ eng[s].pc = "email"
        /\ getSnapshot(store[s], SourceUrl(s)).contentHash = eng[s].fetchResult.hash
        /\ eng[s].lastSnapshot.contentHash # eng[s].fetchResult.hash

\* the cycle in progress fetched a transition (sourceUrl, oldHash, newHash)
\* whose event is already in the log
Recurrence(s) ==
    \E i \in 1..Len(store[s].events) :
        store[s].events[i].eventId =
            eventIdOf(SourceUrl(s), oldHash(eng[s]), eng[s].fetchResult.hash)

StoredHash(s) == getSnapshot(store[s], SourceUrl(s)).contentHash

\* C34: with the config written once, a save-snapshot step leaves a
\* non-empty contentHash, a non-empty stored contentHash is never empty
\* again, and a cycle that treats its fetch as the baseline found the
\* stored contentHash empty: the baseline is taken once, also when fetches
\* fail in between
C34_BaselineAtMostOnce ==
    /\ [][\A s \in Scouts :
             /\ (Running(s, "save-snapshot") /\ eng'[s] # eng[s])
                => StoredHash(s)' # EmptyHash
             /\ StoredHash(s) # EmptyHash => StoredHash(s)' # EmptyHash]_vars
    /\ [](\A s \in Scouts :
             (eng[s].status = "running" /\ eng[s].pc = "save-snapshot"
                /\ isFirstPoll(eng[s]))
             => StoredHash(s) = EmptyHash)

\* C34 witness: after a cycle whose fetch failed, the next cycle has fetched
\* and read a snapshot saved two poll intervals ago, and is not a baseline
C34_Witness ==
    \E s \in Scouts :
        /\ Running(s, "save-snapshot")
        /\ ~isFirstPoll(eng[s])
        /\ eng[s].lastSnapshot.checkedAt # NoTime
        /\ eng[s].lastSnapshot.checkedAt + 2 * pollIntervalMinutes <= now

\* C35 (as claimed): an engine exists only for a scout whose config is
\* stored, as long as the scout has not been deleted; a Create that answered
\* 201 has stored the config; and no engine fails in its first load-config
C35_EngineOnlyWithStoredConfig ==
    \A s \in Scouts :
        /\ (eng[s].status # "none" /\ api.deletes[s] = 0 /\ s \notin api.wiping)
           => getConfig(store[idFromName(s)]).ok
        /\ (api.last.op = "create" /\ api.last.status = 201 /\ api.last.scoutId = s
              /\ api.deletes[s] = 0 /\ s \notin api.wiping)
           => getConfig(store[idFromName(s)]).ok
        /\ ~(eng[s].status = "errored" /\ eng[s].pc = "load-config" /\ eng[s].cycle = 0)

\* C36 (as claimed): a Get that answers 200 {config, events} answers a pair
\* that one state of the store held: it has read the events from a store
\* that still holds the config, or the list it read is the empty log that
\* stood next to the config when the config was read
C36_GetReadsOneState ==
    [][\A s \in Scouts : \A g \in api.getting :
          (g[1] = s /\ handleGetScoutEvents(s))
          => \/ getConfig(store[idFromName(s)]).ok
             \/ g[3] = 0 /\ api'.last.events = <<>>]_vars

\* C37: the count read by the email-count step stays the cycle's count; a
\* record-event step in a cycle whose count is at the limit is followed by
\* the sleep and the cycle sends nothing, whatever the counter of the
\* current UTC day says; a record-event step that inserted the event in a
\* cycle whose count is under the limit is followed by the email step
C37_RateDecisionTakenOnce ==
    [][\A s \in Scouts :
          /\ (/\ eng[s].status = "running" /\ eng[s].pc \notin {"email-count", "wait"}
              /\ eng'[s].status = "running")
             => eng'[s].emailCount = eng[s].emailCount
          /\ (Running(s, "record-event") /\ eng'[s] # eng[s])
             => IF eng[s].emailCount >= maxEmailsPerScoutPerDay
                THEN eng'[s].status = "running" /\ eng'[s].pc = "wait"
                ELSE Len(store'[s].events) > Len(store[s].events)
                     => eng'[s].status = "running" /\ eng'[s].pc = "email"
          /\ (eng[s].status = "running"
                /\ eng[s].emailCount >= maxEmailsPerScoutPerDay)
             => sent'[s] = sent[s]]_vars

\* C37 witness: the cycle read a count at the limit, the UTC day changed
\* before its event was recorded, and the cycle is at its sleep with the
\* event in the log, no email for it and today's count at 0
C37_Witness ==
    \E s \in Scouts :
        /\ Running(s, "wait")
        /\ eng[s].emailCount >= maxEmailsPerScoutPerDay
        /\ eng[s].recorded = [ok |-> TRUE, duplicate |-> FALSE]
        /\ getEmailCount(store[s], now) = 0
        /\ \A i \in 1..Len(sent[s]) : sent[s][i].eventId # eng[s].eventId

\* C38 (as claimed): once a Delete of a scout has returned, the scout's
\* engine completes no fetch step and sends no email, also when the
\* termination of the instance failed
C38_NothingAfterDelete ==
    [][\A s \in Scouts :
          api.deletes[s] > 0
          => /\ sent'[s] = sent[s]
             /\ ~(Running(s, "fetch") /\ eng'[s].fetchResult # eng[s].fetchResult)]_vars

(***************************************************************************)
(* Step names.  Every step.do and the step.sleep of run() is given a name  *)
(* by a template string; the runtime memoizes the outcome of a step under  *)
(* its name for the whole run.                                             *)
(***************************************************************************)
\* source.label of the one source of a scout (getSearchSources)
SourceLabel(s) == <<"Google News: ", s>>

\* the named steps of one cycle in the order run() reaches them
StepKinds ==
    <<"load-config", "email-count", "fetch", "snapshot", "save-snapshot", "analyze",
      "dedupe", "hash-event", "record-event", "email", "wait">>

\* the steps named once per cycle; the others are named once per cycle and source
PerCycleSteps == {"load-config", "email-count", "wait"}

\* the literal text a step's template string begins with
StepPrefix(kind) ==
    CASE kind = "load-config" -> <<"load", "-", "config", "-">>
      [] kind = "email-count" -> <<"email", "-", "count", "-">>
      [] kind = "save-snapshot" -> <<"save", "-", "snapshot", "-">>
      [] kind = "hash-event" -> <<"hash", "-", "event", "-">>
      [] kind = "record-event" -> <<"record", "-", "event", "-">>
      [] OTHER -> <<kind, "-">>

\* a step name without the cycle index
StepNameNoCycle(kind, cycle, label) ==
    IF kind \in PerCycleSteps
    THEN StepPrefix(kind)
    ELSE StepPrefix(kind) \o label

\* `load-config-${cycle}`, `fetch-${cycle}-${source.label}`, ..., `wait-${cycle}`
StepName(kind, cycle, label) ==
    IF kind \in PerCycleSteps
    THEN StepPrefix(kind) \o <<ToString(cycle)>>
    ELSE StepPrefix(kind) \o <<ToString(cycle), "-">> \o label

\* the names of the steps run() has passed when it stands at step i of StepKinds
\* in the given cycle: every step of the earlier cycles that a cycle can run,
\* and the earlier steps of this cycle
NamesBefore(i, cycle, label) ==
    {StepName(StepKinds[j], c, label) :
        <<j, c>> \in {x \in (1..Len(StepKinds)) \X (0..cycle) :
                         x[2] < cycle \/ x[1] < i}}

\* C39: the name of the step an engine stands at is the name of no step the
\* run has passed, of this cycle or of an earlier one, so the runtime holds
\* no memoized outcome under it; and a cycle begins with none of the
\* outcomes of the cycle before
C39_StepNamesDistinct ==
    /\ [](\A s \in Scouts : \A i \in 1..Len(StepKinds) :
             eng[s].status # "none" /\ eng[s].pc = StepKinds[i]
             => StepName(StepKinds[i], eng[s].cycle, SourceLabel(s))
                   \notin NamesBefore(i, eng[s].cycle, SourceLabel(s)))
    /\ [][\A s \in Scouts :
             eng'[s].cycle > eng[s].cycle
             => \A f \in DOMAIN CycleLocals : eng'[s][f] = CycleLocals[f]]_vars

\* an engine in its third cycle at the email step, the outcomes of ten
\* steps of the cycle and of two earlier cycles memoized
C39_Witness ==
    \E s \in Scouts : Running(s, "email") /\ eng[s].cycle = 2

====
